---- MODULE Spec2Model ----
(***************************************************************************)
(* Model of examples/2d/pixel_grid_snap.rs: a low-resolution canvas that   *)
(* an inner camera renders into, an outer camera that shows the canvas in  *)
(* the window, and the fit_canvas system that rescales the outer camera's  *)
(* orthographic projection on every WindowResized event.                   *)
(*                                                                         *)
(* f32 values are modelled exactly as rationals <<num, den>>; den = 0 is   *)
(* the IEEE value +inf that 1. / 0. produces.  Window sizes are whole      *)
(* numbers of pixels, for which the f32 quotient, min and round agree with *)
(* the exact ones.                                                         *)
(***************************************************************************)
EXTENDS Integers, Sequences, FiniteSets, TLC

VARIABLES pc, startupRan, ran, entities, images, resize_events, fitLog,
          seen, drawLog

vars == <<pc, startupRan, ran, entities, images, resize_events, fitLog,
          seen, drawLog>>

(* ------------------------------ constants ------------------------------ *)

RES_WIDTH == 160

RES_HEIGHT == 90

(* ------------------------------- bounds -------------------------------- *)

\* most WindowResized events the window sends between two frames
MaxEventsPerFrame == 3

\* rotations are kept modulo RotPeriod steps of dt * PI / 2
RotPeriod == 4

\* the frame's delta time is 1..MaxDt ticks
MaxDt == 2

\* the grid of window sizes of the fit-scale specification
MaxWidthSteps == 13

MaxHeightSteps == 7

(* --------------------------- window sizes ------------------------------ *)

\* sizes the window reports in the frame-loop specification
WindowSizes ==
    { <<500, 270>>, <<0, 270>>, <<100, 90>>, <<280, 158>> }

GridWidths == { 40 * k : k \in 0..MaxWidthSteps }

GridHeights == { 45 * k : k \in 0..MaxHeightSteps }

WindowResized(w, h) == [width |-> w, height |-> h]

(* ------------------------------ f32 values ----------------------------- *)

One == <<1, 1>>

NoValue == <<0, 0>>

\* a < b on rationals with non-negative numerators; <<1, 0>> is +inf
LessF32(a, b) == a[1] * b[2] < b[1] * a[2]

\* f32::min
MinF32(a, b) == IF LessF32(b, a) THEN b ELSE a

\* f32::round: nearest integer, halves away from zero (values are >= 0)
RoundF32(q) == (2 * q[1] + q[2]) \div (2 * q[2])

\* 1. / r
RecipF32(r) == <<1, r>>

(* ------------------------------ fit_canvas ----------------------------- *)

HScaleInverted(width) == <<RES_WIDTH, width>>

\* let h_scale = event.width / RES_WIDTH as f32;
HScale(width) == <<width, RES_WIDTH>>

\* let v_scale = event.height / RES_HEIGHT as f32;
VScale(height) == <<height, RES_HEIGHT>>

\* h_scale.min(v_scale).round()
FitScale(width, height) == RoundF32(MinF32(HScale(width), VScale(height)))

ScaleAssignMul(old, fit) == <<old[1], old[2] * fit>>

\* projection.scale = 1. / fit
ScaleAssign(old, fit) == RecipF32(fit)

\* the body of the for loop, once per event in queue order; the result is
\* the record of what each iteration computed and assigned
RECURSIVE FitLoop(_, _)
FitLoop(events, scale) ==
    IF events = <<>> THEN <<>>
    ELSE LET event == Head(events)
             fit   == FitScale(event.width, event.height)
             after == ScaleAssign(scale, fit)
         IN  << [width |-> event.width, height |-> event.height,
                 fit_scale |-> fit, before |-> scale, after |-> after] >>
             \o FitLoop(Tail(events), after)

FitLoopFirstOnly(events, scale) ==
    IF events = <<>> THEN <<>>
    ELSE LET event == Head(events)
             fit   == FitScale(event.width, event.height)
             after == ScaleAssign(scale, fit)
         IN  << [width |-> event.width, height |-> event.height,
                 fit_scale |-> fit, before |-> scale, after |-> after] >>

\* for event in resize_event.iter() { ... }
FitEvents(events, scale) == FitLoop(events, scale)

(* ------------------------------- entities ------------------------------ *)

Entity(id, comps) ==
    [id |-> id, comps |-> comps, texture |-> "none",
     translation |-> <<0, 0>>, xf_scale |-> 1, rotation |-> 0,
     layers |-> {}, order |-> 0, target |-> "none", proj_scale |-> NoValue]

\* the sample sprite that will be rendered to the canvas
PixelSprite ==
    [Entity("pixel_sprite", {"Sprite", "Transform", "Drawable", "RenderLayers"})
        EXCEPT !.texture = "sensei", !.translation = <<-40, 20>>,
               !.layers = {1}]

\* same, but skips the pixel-perfect rendering
SmoothSprite ==
    [Entity("smooth_sprite", {"Sprite", "Transform", "Drawable"})
        EXCEPT !.texture = "sensei", !.translation = <<-40, -20>>]

QuadMesh ==
    [Entity("quad_mesh", {"Mesh2d", "Transform", "Drawable", "RenderLayers"})
        EXCEPT !.translation = <<40, 0>>, !.xf_scale = 32, !.layers = {1}]

CanvasImage == [handle |-> "canvas", width |-> RES_WIDTH, height |-> RES_HEIGHT]

InGameCameraNoLayer ==
    [Entity("in_game_camera",
            {"Camera", "OrthographicProjection", "Transform", "InGameCamera"})
        EXCEPT !.order = -1, !.target = "canvas", !.proj_scale = One]

\* this camera renders whatever is on Render layer 1 to the canvas
InGameCameraEntity ==
    [Entity("in_game_camera",
            {"Camera", "OrthographicProjection", "Transform", "RenderLayers",
             "InGameCamera"})
        EXCEPT !.order = -1, !.target = "canvas", !.layers = {1},
               !.proj_scale = One]

\* this places the canvas to the "outer world"
CanvasSprite ==
    [Entity("canvas_sprite", {"Sprite", "Transform", "Canvas"})
        EXCEPT !.texture = "canvas"]

\* the "outer" camera renders the objects that are in the "outer world"
OuterCameraEntity ==
    [Entity("outer_camera",
            {"Camera", "OrthographicProjection", "Transform", "OuterCamera"})
        EXCEPT !.target = "window", !.proj_scale = One]

StartupSystems == {"setup_camera", "setup_sprite", "setup_mesh"}

UpdateSystems == {"transform_drawables", "fit_canvas"}

AllProjectionsQuery(ents) ==
    { e \in ents : "OrthographicProjection" \in e.comps }

\* Query<&mut OrthographicProjection, With<OuterCamera>>
OuterProjectionQuery(ents) ==
    { e \in ents : {"OrthographicProjection", "OuterCamera"} \subseteq e.comps }

\* Query<&mut Transform, With<Drawable>>
DrawableQuery(ents) ==
    { e \in ents : {"Transform", "Drawable"} \subseteq e.comps }

SetScaleOfAll(ents, id, scale) ==
    { IF "OrthographicProjection" \in e.comps
      THEN [e EXCEPT !.proj_scale = scale] ELSE e : e \in ents }

\* projection.scale = ...  on the entity single_mut returned
SetProjectionScale(ents, id, scale) ==
    { IF e.id = id THEN [e EXCEPT !.proj_scale = scale] ELSE e : e \in ents }

\* transform.rotate_z(dt * PI / 2.) on every Drawable
RotateDrawables(ents, dt) ==
    { IF e \in DrawableQuery(ents)
      THEN [e EXCEPT !.rotation = (e.rotation + dt) % RotPeriod] ELSE e
      : e \in ents }

(* ------------------------------ rendering ------------------------------ *)

\* RenderLayers of an entity; an entity without the component is on layer 0
LayersOf(e) == IF "RenderLayers" \in e.comps THEN e.layers ELSE {0}

Renderables(ents) == { e \in ents : e.comps \cap {"Sprite", "Mesh2d"} # {} }

Cameras(ents) == { e \in ents : "Camera" \in e.comps }

\* the cameras in ascending Camera::order
CamerasInOrder(ents) ==
    LET cams == Cameras(ents)
        n    == Cardinality(cams)
    IN  CHOOSE s \in [1..n -> cams] :
            /\ \A i, j \in 1..n : i # j => s[i] # s[j]
            /\ \A i, j \in 1..n : i < j => s[i].order <= s[j].order

\* what one camera draws, and where
DrawCamera(cam, ents) ==
    [camera |-> cam.id, order |-> cam.order, target |-> cam.target,
     drawn  |-> { e.id : e \in { r \in Renderables(ents) :
                                   LayersOf(r) \cap LayersOf(cam) # {} } }]

RenderFrame(ents) ==
    LET s == CamerasInOrder(ents)
    IN  [i \in 1..Cardinality(Cameras(ents)) |-> DrawCamera(s[i], ents)]

(* ------------------------------- actions ------------------------------- *)

Init ==
    /\ pc = "startup"
    /\ startupRan = {}
    /\ ran = {}
    /\ entities = {}
    /\ images = {}
    /\ resize_events = <<>>
    /\ fitLog = <<>>
    /\ seen = {}
    /\ drawLog = <<>>

StartupStep(name) ==
    /\ pc = "startup"
    /\ name \notin startupRan
    /\ startupRan' = startupRan \cup {name}
    /\ pc' = IF startupRan' = StartupSystems THEN "idle" ELSE "startup"
    /\ UNCHANGED <<ran, resize_events, fitLog, seen, drawLog>>

setup_sprite ==
    /\ StartupStep("setup_sprite")
    /\ entities' = entities \cup {PixelSprite, SmoothSprite}
    /\ UNCHANGED images

setup_mesh ==
    /\ StartupStep("setup_mesh")
    /\ entities' = entities \cup {QuadMesh}
    /\ UNCHANGED images

setup_camera ==
    /\ StartupStep("setup_camera")
    /\ images' = images \cup {CanvasImage}
    /\ entities' = entities \cup
                     {InGameCameraEntity, CanvasSprite, OuterCameraEntity}

\* the window reports a new size
SendResize ==
    /\ pc \in {"startup", "idle"}
    /\ Len(resize_events) < MaxEventsPerFrame
    /\ \E size \in WindowSizes :
          resize_events' =
              Append(resize_events, WindowResized(size[1], size[2]))
    /\ UNCHANGED <<pc, startupRan, ran, entities, images, fitLog, seen,
                   drawLog>>

\* the schedule starts a frame
BeginFrame ==
    /\ pc = "idle"
    /\ pc' = "update"
    /\ ran' = {}
    /\ drawLog' = <<>>
    /\ UNCHANGED <<startupRan, entities, images, resize_events, fitLog, seen>>

transform_drawables ==
    /\ pc = "update"
    /\ "transform_drawables" \notin ran
    /\ ran' = ran \cup {"transform_drawables"}
    /\ \E dt \in 1..MaxDt : entities' = RotateDrawables(entities, dt)
    /\ UNCHANGED <<pc, startupRan, images, resize_events, fitLog, seen,
                   drawLog>>

fit_canvas ==
    /\ pc = "update"
    /\ "fit_canvas" \notin ran
    /\ ran' = ran \cup {"fit_canvas"}
    /\ resize_events' = <<>>
    /\ LET q == OuterProjectionQuery(entities)
       IN  IF resize_events = <<>>
           THEN UNCHANGED <<pc, entities, fitLog, seen>>
           ELSE IF Cardinality(q) # 1
           THEN \* single_mut panics
                /\ pc' = "panicked"
                /\ UNCHANGED <<entities, fitLog, seen>>
           ELSE LET cam == CHOOSE e \in q : TRUE
                    log == FitEvents(resize_events, cam.proj_scale)
                IN  /\ entities' =
                          SetProjectionScale(entities, cam.id,
                                             log[Len(log)].after)
                    /\ fitLog' = log
                    /\ seen' = seen \cup
                          { [width |-> log[i].width, height |-> log[i].height,
                             fit_scale |-> log[i].fit_scale,
                             after |-> log[i].after] : i \in 1..Len(log) }
                    /\ UNCHANGED pc
    /\ UNCHANGED <<startupRan, images, drawLog>>

\* both cameras draw, in camera order, once the frame's systems have run
Render ==
    /\ pc = "update"
    /\ ran = UpdateSystems
    /\ drawLog' = RenderFrame(entities)
    /\ fitLog' = <<>>
    /\ pc' = "idle"
    /\ UNCHANGED <<startupRan, ran, entities, images, resize_events, seen>>

Next ==
    \/ setup_camera
    \/ setup_sprite
    \/ setup_mesh
    \/ SendResize
    \/ BeginFrame
    \/ transform_drawables
    \/ fit_canvas
    \/ Render

Spec == Init /\ [][Next]_vars

(* --------------------- the fit-scale specification --------------------- *)

\* the entities the three startup systems have spawned
PostSetupEntities ==
    {PixelSprite, SmoothSprite, QuadMesh, InGameCameraEntity, CanvasSprite,
     OuterCameraEntity}

\* after startup, with two resize events of any sizes of the grid pending
InitFit ==
    /\ pc = "idle"
    /\ startupRan = StartupSystems
    /\ ran = {}
    /\ entities = PostSetupEntities
    /\ images = {CanvasImage}
    /\ \E w1, w2 \in GridWidths : \E h1, h2 \in GridHeights :
          resize_events = <<WindowResized(w1, h1), WindowResized(w2, h2)>>
    /\ fitLog = <<>>
    /\ seen = {}
    /\ drawLog = <<>>

NextFit ==
    \/ BeginFrame
    \/ transform_drawables
    \/ fit_canvas
    \/ Render

SpecFit == InitFit /\ [][NextFit]_vars

(* ------------------------------ properties ----------------------------- *)

\* a step in which fit_canvas runs
FitStep == "fit_canvas" \notin ran /\ "fit_canvas" \in ran'

\* the projection scale of the outer camera
OuterScale(ents) == (CHOOSE e \in OuterProjectionQuery(ents) : TRUE).proj_scale

\* the entities, leaving the outer camera's projection scale out
ExceptOuterScale(ents) ==
    { IF "OuterCamera" \in e.comps THEN [e EXCEPT !.proj_scale = NoValue]
      ELSE e : e \in ents }

EventsOf(log) ==
    [i \in 1..Len(log) |-> WindowResized(log[i].width, log[i].height)]

\* floor(min(ww / bw, wh / bh))
FloorOfMin(width, height) ==
    LET q == MinF32(HScale(width), VScale(height)) IN q[1] \div q[2]

\* C1: every handled resize event computes fit_scale = floor(min(ww/160,
\* wh/90)) and sets the outer camera's projection scale to 1 / fit_scale.
C1_FitScaleIsFloorOfMin ==
    \A i \in 1..Len(fitLog) :
        /\ fitLog[i].fit_scale = FloorOfMin(fitLog[i].width, fitLog[i].height)
        /\ fitLog[i].after = RecipF32(fitLog[i].fit_scale)

\* C2: whenever the computed fit_scale is at least 1, the scaled canvas fits
\* inside the window in both axes.
C2_ScaledCanvasFitsWindow ==
    \A i \in 1..Len(fitLog) :
        fitLog[i].fit_scale >= 1 =>
            /\ fitLog[i].fit_scale * RES_WIDTH <= fitLog[i].width
            /\ fitLog[i].fit_scale * RES_HEIGHT <= fitLog[i].height

\* C3: a resize event of zero width or height is a no-op: nothing is divided
\* by zero and the projection scale keeps its previous value.
C3_ZeroSizeIsNoOp ==
    \A i \in 1..Len(fitLog) :
        (fitLog[i].width = 0 \/ fitLog[i].height = 0) =>
            /\ fitLog[i].fit_scale # 0
            /\ fitLog[i].after = fitLog[i].before

\* C4: of two handled window sizes, the one that is no larger in either axis
\* gets a fit_scale that is no larger.
C4_FitScaleMonotone ==
    \A a, b \in seen :
        (a.width <= b.width /\ a.height <= b.height) =>
            a.fit_scale <= b.fit_scale

C4_Witness ==
    \E a, b \in seen :
        /\ a.width < b.width /\ a.height <= b.height
        /\ a.fit_scale < b.fit_scale
        /\ a.fit_scale >= 1

\* C5: a non-zero window smaller than the buffer in some axis leaves the
\* outer camera with a projection scale strictly greater than 1.
C5_SmallWindowScaleAboveOne ==
    \A i \in 1..Len(fitLog) :
        ( /\ fitLog[i].width > 0 /\ fitLog[i].height > 0
          /\ (fitLog[i].width < RES_WIDTH \/ fitLog[i].height < RES_HEIGHT) )
        => LessF32(One, fitLog[i].after)

\* C6: a run of the resize handler changes nothing but the outer camera's
\* projection scale: every other entity and field, and the canvas image with
\* its 160x90 size, stay as they were.
C6_ResizeChangesOnlyOuterScale ==
    [][ FitStep =>
          /\ images' = images
          /\ CanvasImage \in images'
          /\ ExceptOuterScale(entities') = ExceptOuterScale(entities) ]_vars

C6_Witness ==
    /\ "fit_canvas" \in ran
    /\ "transform_drawables" \in ran
    /\ \E i \in 1..Len(fitLog) : fitLog[i].after # fitLog[i].before
    /\ OuterScale(entities) # One

\* C7: a run of the resize handler handles every pending event in queue
\* order and leaves none pending; the scale is then the one computed from the
\* last of them, or the old one when none was pending.
C7_DrainsAllEventsInOrder ==
    [][ FitStep =>
          /\ resize_events' = <<>>
          /\ EventsOf(fitLog') = resize_events
          /\ OuterScale(entities') =
               IF resize_events = <<>> THEN OuterScale(entities)
               ELSE LET last == resize_events[Len(resize_events)]
                    IN  RecipF32(FitScale(last.width, last.height)) ]_vars

C7_Witness ==
    /\ "fit_canvas" \in ran
    /\ resize_events = <<>>
    /\ Len(fitLog) >= 2
    /\ fitLog[1].after # fitLog[Len(fitLog)].after
    /\ OuterScale(entities) = fitLog[Len(fitLog)].after

\* C8: the same window size always yields the same projection scale,
\* whatever scale the camera had before the event.
C8_SameSizeSameScale ==
    \A a, b \in seen :
        (a.width = b.width /\ a.height = b.height) => a.after = b.after

C8_Witness ==
    \E i, j, k \in 1..Len(fitLog) :
        /\ i < j /\ j < k
        /\ fitLog[i].width = fitLog[k].width
        /\ fitLog[i].height = fitLog[k].height
        /\ fitLog[j].after # fitLog[i].after
        /\ fitLog[i].before # fitLog[k].before
        /\ fitLog[i].after = fitLog[k].after

\* C9: in a rendered frame the inner camera (order -1, target the canvas)
\* draws before the outer camera and draws exactly the entities on render
\* layer 1; the outer camera draws the canvas sprite and every entity not on
\* layer 1; nothing is drawn twice and the canvas sprite is not drawn into
\* the canvas.
C9_TwoCameraCompositing ==
    drawLog # <<>> =>
        LET inner == { e.id : e \in { r \in Renderables(entities) :
                           "RenderLayers" \in r.comps /\ 1 \in r.layers } }
            outer == { e.id : e \in { r \in Renderables(entities) :
                           ~("RenderLayers" \in r.comps /\ 1 \in r.layers) } }
        IN  /\ Len(drawLog) = 2
            /\ drawLog[1].camera = "in_game_camera"
            /\ drawLog[1].order = -1
            /\ drawLog[1].target = "canvas"
            /\ drawLog[2].camera = "outer_camera"
            /\ drawLog[1].order < drawLog[2].order
            /\ drawLog[1].drawn = inner
            /\ drawLog[2].drawn = outer
            /\ "canvas_sprite" \in drawLog[2].drawn
            /\ "canvas_sprite" \notin drawLog[1].drawn
            /\ drawLog[1].drawn \cap drawLog[2].drawn = {}

C9_Witness ==
    /\ Len(drawLog) = 2
    /\ drawLog[1].drawn = {"pixel_sprite", "quad_mesh"}
    /\ drawLog[2].drawn = {"canvas_sprite", "smooth_sprite"}

\* C10: once startup is over exactly one OuterCamera with an orthographic
\* projection exists, and the handler's single_mut never aborts.
C10_SingleOuterCamera ==
    /\ pc # "panicked"
    /\ pc # "startup" => Cardinality(OuterProjectionQuery(entities)) = 1

C10_Witness ==
    /\ pc = "update"
    /\ "fit_canvas" \in ran
    /\ fitLog # <<>>

====
